---- MODULE Spec2Model ----
(***************************************************************************)
(* Model of interception-rs: the bounded slice (src/bounded_slice.rs), the *)
(* Stroke conversions and the Interception context (src/lib.rs).           *)
(*                                                                         *)
(* Three specifications share the module:                                  *)
(*   SpecConv   the TryFrom conversions between native records and Stroke  *)
(*   SpecSlice  get_prefix / get_prefix_mut and accesses through the view  *)
(*   Spec       the Interception context talking to the native driver      *)
(***************************************************************************)
EXTENDS Integers, Sequences, FiniteSets, TLC

VARIABLES
    rawIn,          \* SpecConv: the native record handed to the decoder
    decoded,        \* SpecConv: Result<Stroke, &str> of the decode
    rawOut,         \* SpecConv: Result<native record, &str> of the encode
    backing,        \* SpecSlice: the [T; SIZE] array
    view,           \* SpecSlice: the &BoundedSlice currently borrowed from it
    access,         \* SpecSlice: outcome of the last call on the array/view
    ctx,            \* Spec: per context slot, where the Interception value is
    handle,         \* Spec: per context slot, the handle create_context gave
    destroyCalls,   \* Spec: per context slot, calls of destroy_context on it
    native,         \* Spec: the last call made into the native driver
    last            \* Spec: the last wrapper operation, inputs and result

vars == <<rawIn, decoded, rawOut, backing, view, access,
          ctx, handle, destroyCalls, native, last>>

convVars  == <<rawIn, decoded, rawOut>>
sliceVars == <<backing, view, access>>
ctxVars   == <<ctx, handle, destroyCalls, native, last>>

(***************************************************************************)
(* Bounds of the model.                                                    *)
(***************************************************************************)
BUFFER_SIZE == 3        \* const BUFFER_SIZE of send / receive
SIZE == 3               \* const SIZE of the array behind a BoundedSlice
MaxCtx == 1             \* Interception values a run may create

(***************************************************************************)
(* 16-bit masks, as the bitflags! types keep them.                         *)
(***************************************************************************)
U16_MAX == 65535

\* Values wider than 31 bits are kept as little-endian sequences of 16-bit
\* limbs: a u32 has 2 limbs, a u64 has 4, a u128 has 8.
LIMB == U16_MAX + 1
U32_MAX == <<U16_MAX, U16_MAX>>

RECURSIVE BitAnd(_, _)
BitAnd(a, b) ==
    IF a = 0 \/ b = 0 THEN 0
    ELSE (a % 2) * (b % 2) + 2 * BitAnd(a \div 2, b \div 2)

RECURSIVE BitOr(_, _)
BitOr(a, b) ==
    IF a = 0 THEN b
    ELSE IF b = 0 THEN a
    ELSE (IF a % 2 = 1 \/ b % 2 = 1 THEN 1 ELSE 0) + 2 * BitOr(a \div 2, b \div 2)

RECURSIVE BitOrAll(_)
BitOrAll(S) ==
    IF S = {} THEN 0
    ELSE LET c == CHOOSE c \in S : TRUE IN BitOr(c, BitOrAll(S \ {c}))

MOVE == 4096

\* the constants each bitflags! struct declares
MouseState == {1, 2, 4, 8, 16, 32, 64, 128, 256, 512, 1024, 2048, MOVE}
MouseFilter == MouseState
MouseFlags == {0, 1, 2, 4, 8, 256}
KeyState == {0, 1, 2, 3, 8, 16, 32}
KeyFilter == {1, 2, 4, 8, 16, 32, 64}

\* Flags::all().bits(), per bitflags! struct
MouseState_all == BitOrAll(MouseState)
MouseFilter_all == BitOrAll(MouseFilter)
MouseFlags_all == BitOrAll(MouseFlags)
KeyState_all == BitOrAll(KeyState)
KeyFilter_all == BitOrAll(KeyFilter)

Some(v) == [ok |-> TRUE, val |-> v]
None == [ok |-> FALSE, err |-> "None"]
Ok(v) == [ok |-> TRUE, val |-> v]
Err(msg) == [ok |-> FALSE, err |-> msg]

\* Flags::from_bits(bits), given Flags::all().bits(): None when a bit outside
\* all() is set
from_bits(all_bits, bits) ==
    IF BitAnd(bits, U16_MAX - all_bits) = 0 THEN Some(bits) ELSE None

\* Flags::bits()
bits(flags) == flags

\* Flags::empty()
empty == 0

(***************************************************************************)
(* ScanCode (src/scancode.rs is not among the sources): an enumeration     *)
(* with repr(u16); a symbol is kept as [sc |-> discriminant].              *)
(***************************************************************************)
ScanCodeTable == (1 .. 83) \cup {87, 88}

ScanCode_try_from(code) ==
    IF code \in ScanCodeTable THEN Ok([sc |-> code]) ELSE Err("unknown scan code")

ScanCode_Esc == [sc |-> 1]

ScanCode_as_u16(code) == code.sc

(***************************************************************************)
(* Stroke conversions.                                                     *)
(***************************************************************************)
\* a mouse decoder that drops the unknown flag bits instead of failing
Stroke_try_from_mouse_truncate(raw_stroke) ==
    LET state == from_bits(MouseState_all, raw_stroke.state)
    IN  IF ~state.ok THEN Err("Extra bits in raw mouse state")
        ELSE Ok([tag |-> "Mouse",
                 state |-> state.val,
                 flags |-> BitAnd(raw_stroke.flags, MouseFlags_all),
                 rolling |-> raw_stroke.rolling,
                 x |-> raw_stroke.x,
                 y |-> raw_stroke.y,
                 information |-> raw_stroke.information])

\* impl TryFrom<raw::InterceptionMouseStroke> for Stroke
Stroke_try_from_mouse(raw_stroke) ==
    LET state == from_bits(MouseState_all, raw_stroke.state)
        flags == from_bits(MouseFlags_all, raw_stroke.flags)
    IN  IF ~state.ok THEN Err("Extra bits in raw mouse state")
        ELSE IF ~flags.ok THEN Err("Extra bits in raw mouse flags")
        ELSE Ok([tag |-> "Mouse",
                 state |-> state.val,
                 flags |-> flags.val,
                 rolling |-> raw_stroke.rolling,
                 x |-> raw_stroke.x,
                 y |-> raw_stroke.y,
                 information |-> raw_stroke.information])

\* impl TryFrom<raw::InterceptionKeyStroke> for Stroke
Stroke_try_from_key(raw_stroke) ==
    LET state == from_bits(KeyState_all, raw_stroke.state)
        code == ScanCode_try_from(raw_stroke.code)
    IN  IF ~state.ok THEN Err("Extra bits in raw keyboard state")
        ELSE Ok([tag |-> "Keyboard",
                 code |-> IF code.ok THEN code.val ELSE ScanCode_Esc,
                 state |-> state.val,
                 information |-> raw_stroke.information])

\* a mouse encoder that writes x and y into each other's fields
MouseStroke_try_from_swapped(stroke) ==
    IF stroke.tag = "Mouse"
    THEN Ok([class |-> "mouse",
             state |-> bits(stroke.state),
             flags |-> bits(stroke.flags),
             rolling |-> stroke.rolling,
             x |-> stroke.y,
             y |-> stroke.x,
             information |-> stroke.information])
    ELSE Err("Stroke must be a mouse stroke")

\* impl TryFrom<Stroke> for raw::InterceptionMouseStroke
MouseStroke_try_from(stroke) ==
    IF stroke.tag = "Mouse"
    THEN Ok([class |-> "mouse",
             state |-> bits(stroke.state),
             flags |-> bits(stroke.flags),
             rolling |-> stroke.rolling,
             x |-> stroke.x,
             y |-> stroke.y,
             information |-> stroke.information])
    ELSE Err("Stroke must be a mouse stroke")

\* impl TryFrom<Stroke> for raw::InterceptionKeyStroke
KeyStroke_try_from(stroke) ==
    IF stroke.tag = "Keyboard"
    THEN Ok([class |-> "keyboard",
             code |-> ScanCode_as_u16(stroke.code),
             state |-> bits(stroke.state),
             information |-> stroke.information])
    ELSE Err("Stroke must be a keyboard stroke")

\* T::try_from(stroke) / raw.try_into() for the native record type T
T_try_from(T, stroke) ==
    IF T = "mouse" THEN MouseStroke_try_from(stroke) ELSE KeyStroke_try_from(stroke)

T_try_into(raw_stroke) ==
    IF raw_stroke.class = "mouse" THEN Stroke_try_from_mouse(raw_stroke)
    ELSE Stroke_try_from_key(raw_stroke)

(***************************************************************************)
(* Values the variables hold while their part of the program is idle.      *)
(***************************************************************************)
NoRecord == [class |-> "none"]
NotDecoded == Err("nothing decoded")
NotEncoded == [target |-> "none", res |-> Err("nothing encoded")]
NoView == [live |-> FALSE, mutable |-> FALSE, ptr |-> 0, len |-> 0]
NoAccess == [op |-> "none"]
NoCall == [fn |-> "none"]
NoOp == [op |-> "none"]

Slots == 1 .. MaxCtx

ConvIdle ==
    /\ rawIn = NoRecord
    /\ decoded = NotDecoded
    /\ rawOut = NotEncoded
SliceIdle ==
    /\ backing = [i \in 1 .. SIZE |-> "a"]
    /\ view = NoView
    /\ access = NoAccess
CtxIdle ==
    /\ ctx = [c \in Slots |-> "unborn"]
    /\ handle = [c \in Slots |-> 0]
    /\ destroyCalls = [c \in Slots |-> 0]
    /\ native = NoCall
    /\ last = NoOp

(***************************************************************************)
(* SpecConv: native records of both classes are decoded, and the decoded   *)
(* Stroke is encoded back into either native class.                        *)
(***************************************************************************)
MouseStateSamples == {0, 1, 2048, MOVE, 8191, 8192, 32768, U16_MAX}
MouseFlagsSamples == {0, 1, 271, 16, 512, U16_MAX}
KeyStateSamples == {0, 1, 3, 59, 4, 64, U16_MAX}
CodeSamples == {0, 1, 30, 88, U16_MAX}
RollingSamples == {-32768, 120}
XSamples == {-2147483647, 5}
YSamples == {0, 2147483647}
InformationSamples == {<<0, 0>>, <<1, 0>>, U32_MAX}

MouseRecords ==
    [class : {"mouse"}, state : MouseStateSamples, flags : MouseFlagsSamples,
     rolling : RollingSamples, x : XSamples, y : YSamples,
     information : InformationSamples]

KeyRecords ==
    [class : {"keyboard"}, code : CodeSamples, state : KeyStateSamples,
     information : InformationSamples]

DecodeMouse ==
    /\ rawIn.class = "mouse"
    /\ decoded = NotDecoded
    /\ decoded' = Stroke_try_from_mouse(rawIn)
    /\ UNCHANGED <<rawIn, rawOut, sliceVars, ctxVars>>

DecodeKey ==
    /\ rawIn.class = "keyboard"
    /\ decoded = NotDecoded
    /\ decoded' = Stroke_try_from_key(rawIn)
    /\ UNCHANGED <<rawIn, rawOut, sliceVars, ctxVars>>

EncodeMouse ==
    /\ decoded.ok
    /\ rawOut' = [target |-> "mouse", res |-> MouseStroke_try_from(decoded.val)]
    /\ UNCHANGED <<rawIn, decoded, sliceVars, ctxVars>>

EncodeKey ==
    /\ decoded.ok
    /\ rawOut' = [target |-> "keyboard", res |-> KeyStroke_try_from(decoded.val)]
    /\ UNCHANGED <<rawIn, decoded, sliceVars, ctxVars>>

InitConv ==
    /\ rawIn \in MouseRecords \cup KeyRecords
    /\ decoded = NotDecoded
    /\ rawOut = NotEncoded
    /\ SliceIdle
    /\ CtxIdle
NextConv == DecodeMouse \/ DecodeKey \/ EncodeMouse \/ EncodeKey
SpecConv == InitConv /\ [][NextConv]_vars

(***************************************************************************)
(* SpecSlice: a [T; SIZE] array, the prefix views borrowed from it and the *)
(* accesses made through a view.  A slice is the pair (ptr, len); indices  *)
(* are 0-based as in the source, the sequence `backing` is 1-based.        *)
(***************************************************************************)
Elem == {"a", "b"}
Written == {"b", "w"}

Panic(msg) == [ok |-> FALSE, err |-> msg]

\* &self[..len] on an array
slice_to(self, len) ==
    IF len > Len(self) THEN Panic("range end index out of range")
    ELSE Ok([ptr |-> 0, len |-> len])

\* a get_prefix that hands out the whole array
get_prefix_whole(self, len, debug) ==
    IF debug /\ ~(len <= Len(self)) THEN Panic("assertion failed: len <= SIZE")
    ELSE slice_to(self, Len(self))

\* debug_assert!(len <= SIZE); transmute(&self[..len]).  `debug` tells whether
\* the build keeps debug assertions.
get_prefix(self, len, debug) ==
    IF debug /\ ~(len <= Len(self)) THEN Panic("assertion failed: len <= SIZE")
    ELSE slice_to(self, len)

get_prefix_mut(self, len, debug) ==
    IF debug /\ ~(len <= Len(self)) THEN Panic("assertion failed: len <= SIZE")
    ELSE slice_to(self, len)

\* Deref / DerefMut: the [T] the view stands for
deref(array, v) == [i \in 1 .. v.len |-> array[v.ptr + i]]

\* (*view)[index], bounds-checked by the slice
slice_index(array, v, index) ==
    IF index < v.len THEN Ok(array[v.ptr + index + 1])
    ELSE Panic("index out of bounds")

\* (*view)[index] = value
slice_index_mut(array, v, index, value) ==
    IF index < v.len THEN Ok([array EXCEPT ![v.ptr + index + 1] = value])
    ELSE Panic("index out of bounds")

GetPrefix ==
    /\ ~view.live
    /\ \E len \in 0 .. SIZE + 1, debug \in BOOLEAN :
          LET r == get_prefix(backing, len, debug) IN
          /\ view' = IF r.ok
                     THEN [live |-> TRUE, mutable |-> FALSE,
                           ptr |-> r.val.ptr, len |-> r.val.len]
                     ELSE NoView
          /\ access' = [op |-> "get_prefix", len |-> len, ok |-> r.ok]
    /\ UNCHANGED <<backing, convVars, ctxVars>>

GetPrefixMut ==
    /\ ~view.live
    /\ \E len \in 0 .. SIZE + 1, debug \in BOOLEAN :
          LET r == get_prefix_mut(backing, len, debug) IN
          /\ view' = IF r.ok
                     THEN [live |-> TRUE, mutable |-> TRUE,
                           ptr |-> r.val.ptr, len |-> r.val.len]
                     ELSE NoView
          /\ access' = [op |-> "get_prefix_mut", len |-> len, ok |-> r.ok]
    /\ UNCHANGED <<backing, convVars, ctxVars>>

ViewIndex ==
    /\ view.live
    /\ \E index \in 0 .. SIZE + 1 :
          LET r == slice_index(backing, view, index) IN
          access' = [op |-> "index", index |-> index, ok |-> r.ok,
                     val |-> IF r.ok THEN r.val ELSE "none"]
    /\ UNCHANGED <<backing, view, convVars, ctxVars>>

ViewIndexMut ==
    /\ view.live
    /\ view.mutable
    /\ \E index \in 0 .. SIZE + 1, value \in Written :
          LET r == slice_index_mut(backing, view, index, value) IN
          /\ backing' = IF r.ok THEN r.val ELSE backing
          /\ access' = [op |-> "index_mut", index |-> index, ok |-> r.ok,
                        val |-> value]
    /\ UNCHANGED <<view, convVars, ctxVars>>

\* the borrow ends
Release ==
    /\ view.live
    /\ view' = NoView
    /\ access' = NoAccess
    /\ UNCHANGED <<backing, convVars, ctxVars>>

InitSlice ==
    /\ ConvIdle
    /\ CtxIdle
    /\ backing \in [1 .. SIZE -> Elem]
    /\ view = NoView
    /\ access = NoAccess
NextSlice == GetPrefix \/ GetPrefixMut \/ ViewIndex \/ ViewIndexMut \/ Release
SpecSlice == InitSlice /\ [][NextSlice]_vars

(***************************************************************************)
(* Spec: Interception contexts and the native driver.  The driver is       *)
(* outside the repository: each of its answers is chosen freely.  A caller *)
(* issues one operation at a time; `last` and `native` keep what the       *)
(* operation did until the caller is done with its result.                 *)
(***************************************************************************)
Devices == {1, 11}
NULL == 0

\* Stroke values a caller may hold
M1 == [tag |-> "Mouse", state |-> 1, flags |-> 0, rolling |-> 0,
       x |-> 5, y |-> -3, information |-> <<0, 0>>]
M2 == [tag |-> "Mouse", state |-> 1024, flags |-> 1, rolling |-> 120,
       x |-> 0, y |-> 0, information |-> U32_MAX]
K1 == [tag |-> "Keyboard", code |-> [sc |-> 30], state |-> 0,
       information |-> <<0, 0>>]
K2 == [tag |-> "Keyboard", code |-> [sc |-> 1], state |-> 3,
       information |-> <<7, 0>>]
StrokeSamples == {M1, M2, K1, K2}

\* native records a driver may write, or an uninitialized array may hold
RawSamples(T) ==
    IF T = "mouse"
    THEN {[class |-> "mouse", state |-> 1, flags |-> 0, rolling |-> 0,
           x |-> 5, y |-> -3, information |-> <<0, 0>>],
          [class |-> "mouse", state |-> MOVE + 2048, flags |-> 271, rolling |-> -120,
           x |-> 1, y |-> 2, information |-> U32_MAX],
          [class |-> "mouse", state |-> 2, flags |-> 16, rolling |-> 0,
           x |-> 8, y |-> 8, information |-> <<0, 0>>]}
    ELSE {[class |-> "keyboard", code |-> 30, state |-> 0, information |-> <<0, 0>>],
          [class |-> "keyboard", code |-> 0, state |-> 1, information |-> U32_MAX],
          [class |-> "keyboard", code |-> 88, state |-> 4, information |-> <<1, 1>>]}

\* what uninitialized memory of a native record, or of a Stroke, may hold
Garbage(T) ==
    IF T = "mouse"
    THEN {[class |-> "mouse", state |-> 0, flags |-> 0, rolling |-> 0,
           x |-> 0, y |-> 0, information |-> <<0, 0>>],
          [class |-> "mouse", state |-> U16_MAX, flags |-> U16_MAX, rolling |-> -1,
           x |-> -1, y |-> -1, information |-> U32_MAX]}
    ELSE {[class |-> "keyboard", code |-> 0, state |-> 0, information |-> <<0, 0>>],
          [class |-> "keyboard", code |-> U16_MAX, state |-> U16_MAX,
           information |-> U32_MAX]}
Stale == {M2, K2}

\* sequences of at most n elements of S
SeqsUpTo(S, n) == UNION {[1 .. k -> S] : k \in 0 .. n}

\* [v; BUFFER_SIZE]
Filled(v) == [i \in 1 .. BUFFER_SIZE |-> v]

Live(c) == ctx[c] = "live"
Idle == last = NoOp

\* a new that wraps whatever handle it got, null included
New_unchecked(c) ==
    /\ last = NoOp
    /\ ctx[c] = "unborn"
    /\ \A d \in Slots : d < c => ctx[d] # "unborn"
    /\ \E created \in {NULL, c} :
          /\ handle' = [handle EXCEPT ![c] = created]
          /\ ctx' = [ctx EXCEPT ![c] = "live"]
          /\ native' = [fn |-> "interception_create_context", ret |-> created]
          /\ last' = [op |-> "new", slot |-> c, some |-> TRUE]
    /\ UNCHANGED <<destroyCalls, convVars, sliceVars>>

\* Interception::new
New(c) ==
    /\ Idle
    /\ ctx[c] = "unborn"
    /\ \A d \in Slots : d < c => ctx[d] # "unborn"
    /\ \E created \in {NULL, c} :
          /\ handle' = [handle EXCEPT ![c] = created]
          /\ ctx' = [ctx EXCEPT ![c] = IF created = NULL THEN "none" ELSE "live"]
          /\ native' = [fn |-> "interception_create_context", ret |-> created]
          /\ last' = [op |-> "new", slot |-> c, some |-> created # NULL]
    /\ UNCHANGED <<destroyCalls, convVars, sliceVars>>

\* impl Drop for Interception: runs when the owner of a live value lets go
Drop(c) ==
    /\ Idle
    /\ Live(c)
    /\ ctx' = [ctx EXCEPT ![c] = "dropped"]
    /\ destroyCalls' = [destroyCalls EXCEPT ![c] = @ + 1]
    /\ native' = [fn |-> "interception_destroy_context", ctx |-> handle[c]]
    /\ last' = [op |-> "drop", slot |-> c]
    /\ UNCHANGED <<handle, convVars, sliceVars>>

\* a get_filter that asks is_mouse before is_invalid
get_filter_mouse_first(invalid, mouse, raw_filter) ==
    IF mouse
    THEN LET filter == from_bits(MouseFilter_all, raw_filter) IN
         [variant |-> "MouseFilter", bits |-> IF filter.ok THEN filter.val ELSE empty]
    ELSE IF invalid THEN [variant |-> "KeyFilter", bits |-> empty]
    ELSE LET filter == from_bits(KeyFilter_all, raw_filter) IN
         [variant |-> "KeyFilter", bits |-> IF filter.ok THEN filter.val ELSE empty]

\* Interception::get_filter, given the driver's answers for the device
get_filter(invalid, mouse, raw_filter) ==
    IF invalid THEN [variant |-> "KeyFilter", bits |-> empty]
    ELSE IF mouse
    THEN LET filter == from_bits(MouseFilter_all, raw_filter) IN
         [variant |-> "MouseFilter", bits |-> IF filter.ok THEN filter.val ELSE empty]
    ELSE LET filter == from_bits(KeyFilter_all, raw_filter) IN
         [variant |-> "KeyFilter", bits |-> IF filter.ok THEN filter.val ELSE empty]

FilterSamples == {0, 1, 127, 128, MOVE, 8191, U16_MAX}

GetFilter(c) ==
    /\ Idle
    /\ Live(c)
    /\ \E device \in Devices, invalid \in BOOLEAN, mouse \in BOOLEAN,
          raw_filter \in FilterSamples :
          /\ native' = IF invalid THEN NoCall
                       ELSE [fn |-> "interception_get_filter", ctx |-> handle[c],
                             device |-> device, ret |-> raw_filter]
          /\ last' = [op |-> "get_filter", slot |-> c, device |-> device,
                      is_invalid |-> invalid, is_mouse |-> mouse,
                      raw_filter |-> raw_filter,
                      ret |-> get_filter(invalid, mouse, raw_filter)]
    /\ UNCHANGED <<ctx, handle, destroyCalls, convVars, sliceVars>>

MILLIS_PER_SEC == 1000
NANOS_PER_MILLI == 1000000

\* limbs * k + carry, kept to the width of limbs
RECURSIVE MulAdd(_, _, _)
MulAdd(limbs, k, carry) ==
    IF limbs = <<>> THEN <<>>
    ELSE LET t == Head(limbs) * k + carry IN
         <<t % LIMB>> \o MulAdd(Tail(limbs), k, t \div LIMB)

\* u64 as u128
widen(limbs) == limbs \o <<0, 0, 0, 0>>

\* Duration::as_millis: secs * 1000 + nanos / 1_000_000, a u128
as_millis(duration) ==
    MulAdd(widen(duration.secs), MILLIS_PER_SEC, duration.nanos \div NANOS_PER_MILLI)

\* u32::try_from(u128)
u32_try_from(limbs) ==
    IF \A i \in 3 .. Len(limbs) : limbs[i] = 0
    THEN Ok(<<limbs[1], limbs[2]>>)
    ELSE Err("out of range")

\* a conversion that keeps the low 32 bits (duration.as_millis() as u32)
timeout_millis_wrap(duration) ==
    LET m == as_millis(duration) IN <<m[1], m[2]>>

\* the millis wait_with_timeout hands to the driver
timeout_millis(duration) ==
    LET m == u32_try_from(as_millis(duration)) IN
    IF m.ok THEN m.val ELSE U32_MAX

SecsSamples ==
    {<<0, 0, 0, 0>>, <<1, 0, 0, 0>>, <<0, 1, 0, 0>>,
     <<35126, 65, 0, 0>>, <<35127, 65, 0, 0>>, <<35128, 65, 0, 0>>,
     <<0, 0, 1, 0>>, <<5, 0, 0, 1>>, <<U16_MAX, U16_MAX, U16_MAX, U16_MAX>>}
NanosSamples == {0, 999999, 1000000, 295999999, 296000000, 999999999}
Durations == [secs : SecsSamples, nanos : NanosSamples]

WaitWithTimeout(c) ==
    /\ Idle
    /\ Live(c)
    /\ \E duration \in Durations, signalled \in Devices \cup {0} :
          /\ native' = [fn |-> "interception_wait_with_timeout", ctx |-> handle[c],
                        milliseconds |-> timeout_millis(duration), ret |-> signalled]
          /\ last' = [op |-> "wait_with_timeout", slot |-> c,
                      duration |-> duration, ret |-> signalled]
    /\ UNCHANGED <<ctx, handle, destroyCalls, convVars, sliceVars>>

\* a send loop that advances the index past a stroke it could not encode
RECURSIVE send_loop_gap(_, _, _, _)
send_loop_gap(T, strokes, raw_strokes, len) ==
    IF strokes = <<>> THEN [raw_strokes |-> raw_strokes, len |-> len]
    ELSE LET raw_stroke == T_try_from(T, Head(strokes)) IN
         IF raw_stroke.ok
         THEN send_loop_gap(T, Tail(strokes),
                            [raw_strokes EXCEPT ![len + 1] = raw_stroke.val], len + 1)
         ELSE send_loop_gap(T, Tail(strokes), raw_strokes, len + 1)

\* the for loop of send_internal: strokes still to visit, the array being
\* filled and the count so far
RECURSIVE send_loop(_, _, _, _)
send_loop(T, strokes, raw_strokes, len) ==
    IF strokes = <<>> THEN [raw_strokes |-> raw_strokes, len |-> len]
    ELSE LET raw_stroke == T_try_from(T, Head(strokes)) IN
         IF raw_stroke.ok
         THEN send_loop(T, Tail(strokes),
                        [raw_strokes EXCEPT ![len + 1] = raw_stroke.val], len + 1)
         ELSE send_loop(T, Tail(strokes), raw_strokes, len)

\* a send_internal that returns its own count and not the driver's
send_internal_len(T, strokes, uninit, debug, sent) ==
    LET filled == send_loop(T, strokes, uninit, 0)
        prefix == get_prefix(filled.raw_strokes, filled.len, debug)
    IN  [memory |-> filled.raw_strokes, ptr |-> prefix.val.ptr,
         count |-> filled.len, ret |-> filled.len]

\* Interception::send_internal: the array the pointer handed to
\* interception_send refers to, the count handed over, and the value returned,
\* which is `sent`, the driver's answer.  `uninit` is what the uninitialized
\* array happens to hold.
send_internal(T, strokes, uninit, debug, sent) ==
    LET filled == send_loop(T, strokes, uninit, 0)
        prefix == get_prefix(filled.raw_strokes, filled.len, debug)
    IN  [memory |-> filled.raw_strokes, ptr |-> prefix.val.ptr,
         count |-> filled.len, ret |-> sent]

\* Interception::send
Send(c) ==
    /\ Idle
    /\ Live(c)
    /\ \E device \in Devices, mouse \in BOOLEAN, keyboard \in BOOLEAN,
          strokes \in SeqsUpTo(StrokeSamples, BUFFER_SIZE) :
          LET T == IF mouse THEN "mouse" ELSE "keyboard" IN
          IF mouse \/ keyboard
          THEN \E garbage \in Garbage(T), debug \in BOOLEAN,
                  sent \in 0 .. BUFFER_SIZE :
                  LET call == send_internal(T, strokes, Filled(garbage), debug, sent) IN
                  /\ sent <= call.count
                  /\ native' = [fn |-> "interception_send", ctx |-> handle[c],
                                device |-> device, memory |-> call.memory,
                                ptr |-> call.ptr, count |-> call.count,
                                ret |-> sent]
                  /\ last' = [op |-> "send", slot |-> c, device |-> device,
                              is_mouse |-> mouse, is_keyboard |-> keyboard,
                              strokes |-> strokes, ret |-> call.ret]
          ELSE /\ native' = NoCall
               /\ last' = [op |-> "send", slot |-> c, device |-> device,
                           is_mouse |-> mouse, is_keyboard |-> keyboard,
                           strokes |-> strokes, ret |-> 0]
    /\ UNCHANGED <<ctx, handle, destroyCalls, convVars, sliceVars>>

\* the for loop of receive_internal from index i on: the caller's buffer,
\* the count of valid strokes, the scratch indices read so far, and
\* whether an index went out of bounds
RECURSIVE receive_loop(_, _, _, _, _, _)
receive_loop(raw_strokes, num_read, i, buffer, num_valid, read) ==
    IF ~(i < num_read)
    THEN [buffer |-> buffer, num_valid |-> num_valid, read |-> read, panic |-> FALSE]
    ELSE IF ~(i < Len(raw_strokes))
    THEN [buffer |-> buffer, num_valid |-> num_valid, read |-> read, panic |-> TRUE]
    ELSE LET stroke == T_try_into(raw_strokes[i + 1]) IN
         IF stroke.ok
         THEN receive_loop(raw_strokes, num_read, i + 1,
                           [buffer EXCEPT ![num_valid + 1] = stroke.val],
                           num_valid + 1, read \cup {i})
         ELSE receive_loop(raw_strokes, num_read, i + 1, buffer, num_valid,
                           read \cup {i})

\* a receive_internal that decodes the whole scratch array
receive_internal_all(raw_strokes, num_read, buffer) ==
    receive_loop(raw_strokes, Len(raw_strokes), 0, buffer, 0, {})

\* Interception::receive_internal after the native call returned num_read
\* and left raw_strokes as it is
receive_internal(raw_strokes, num_read, buffer) ==
    receive_loop(raw_strokes, num_read, 0, buffer, 0, {})

\* the max-count handed to interception_receive: the array length as a u32,
\* u32::MAX when it does not fit (every length of this model fits)
receive_len(raw_strokes) == Len(raw_strokes)

\* Interception::receive
Receive(c) ==
    /\ Idle
    /\ Live(c)
    /\ \E device \in Devices, mouse \in BOOLEAN, keyboard \in BOOLEAN,
          stale \in Stale, debug \in BOOLEAN :
          LET T == IF mouse THEN "mouse" ELSE "keyboard" IN
          IF mouse \/ keyboard
          THEN \E raw_strokes \in [1 .. BUFFER_SIZE -> RawSamples(T)],
                  num_read \in -1 .. BUFFER_SIZE + 1 :
                  LET done == receive_internal(raw_strokes, num_read, Filled(stale))
                      prefix == get_prefix(done.buffer, done.num_valid, debug)
                  IN
                  /\ native' = [fn |-> "interception_receive", ctx |-> handle[c],
                                device |-> device, memory |-> raw_strokes,
                                len |-> receive_len(raw_strokes), ret |-> num_read]
                  /\ last' = [op |-> "receive", slot |-> c, device |-> device,
                              is_mouse |-> mouse, is_keyboard |-> keyboard,
                              buffer |-> done.buffer, read |-> done.read,
                              panic |-> done.panic,
                              ret |-> IF done.panic THEN <<>>
                                      ELSE deref(done.buffer, prefix.val)]
          ELSE LET prefix == get_prefix(Filled(stale), 0, debug) IN
               /\ native' = NoCall
               /\ last' = [op |-> "receive", slot |-> c, device |-> device,
                           is_mouse |-> mouse, is_keyboard |-> keyboard,
                           buffer |-> Filled(stale), read |-> {},
                           panic |-> FALSE,
                           ret |-> deref(Filled(stale), prefix.val)]
    /\ UNCHANGED <<ctx, handle, destroyCalls, convVars, sliceVars>>

\* the caller is done with the result of the last operation
Done ==
    /\ ~Idle
    /\ last' = NoOp
    /\ native' = NoCall
    /\ UNCHANGED <<ctx, handle, destroyCalls, convVars, sliceVars>>

Init == ConvIdle /\ SliceIdle /\ CtxIdle

Next ==
    \/ \E c \in Slots : New(c)
    \/ \E c \in Slots : Drop(c)
    \/ \E c \in Slots : GetFilter(c)
    \/ \E c \in Slots : WaitWithTimeout(c)
    \/ \E c \in Slots : Send(c)
    \/ \E c \in Slots : Receive(c)
    \/ Done

Spec == Init /\ [][Next]_vars

(***************************************************************************)
(* Properties.                                                             *)
(***************************************************************************)
RECURSIVE Pow2(_)
Pow2(i) == IF i = 0 THEN 1 ELSE 2 * Pow2(i - 1)

\* bit i of n is set
Bit(n, i) == (n \div Pow2(i)) % 2 = 1

\* every bit set in n is a bit of some constant of Flags
OnlyDefinedBits(Flags, n) ==
    \A i \in 0 .. 15 : Bit(n, i) => \E k \in Flags : Bit(k, i)

\* the bitmask fields of a native record hold defined bits only
WellFormed(r) ==
    IF r.class = "mouse"
    THEN OnlyDefinedBits(MouseState, r.state) /\ OnlyDefinedBits(MouseFlags, r.flags)
    ELSE OnlyDefinedBits(KeyState, r.state)

HasDecoded == decoded # NotDecoded
SameClassEncoded == rawOut.target = rawIn.class

\* C1 as stated: a native record with defined bits only, decoded and encoded
\* back to its class, comes back equal in every field, whatever its code.
C1_RoundTripEveryCode ==
    (WellFormed(rawIn) /\ SameClassEncoded) =>
        (rawOut.res.ok /\ rawOut.res.val = rawIn)

\* C1 amended: a native record with defined bits only decodes; encoded back
\* to its class, a mouse record comes back equal in every field, and a
\* keyboard record comes back with its state and information, and with its
\* code when the scan code table knows the code, else with the code of Esc.
C1_RoundTripKnownCodes ==
    WellFormed(rawIn) =>
        /\ HasDecoded => decoded.ok
        /\ SameClassEncoded =>
              /\ rawOut.res.ok
              /\ rawIn.class = "mouse" => rawOut.res.val = rawIn
              /\ rawIn.class = "keyboard" =>
                    /\ rawOut.res.val.state = rawIn.state
                    /\ rawOut.res.val.information = rawIn.information
                    /\ rawOut.res.val.code =
                          IF rawIn.code \in ScanCodeTable THEN rawIn.code
                          ELSE ScanCode_as_u16(ScanCode_Esc)

C1_Witness ==
    /\ WellFormed(rawIn)
    /\ SameClassEncoded
    /\ rawIn.class = "keyboard"
    /\ rawIn.code \notin ScanCodeTable
    /\ rawIn.state = 59
    /\ rawOut.res.ok

\* C2: decoding a native record fails exactly when a bitmask field (mouse
\* state, mouse flags, key state) holds a bit outside the defined ones; the
\* other fields play no part, and a failed decode carries no Stroke.
C2_DecodeFailsOnUndefinedBits ==
    HasDecoded =>
        /\ decoded.ok <=> WellFormed(rawIn)
        /\ ~decoded.ok => "val" \notin DOMAIN decoded

C2_Witness ==
    /\ HasDecoded
    /\ ~decoded.ok
    /\ rawIn.class = "mouse"
    /\ OnlyDefinedBits(MouseState, rawIn.state)
    /\ ~OnlyDefinedBits(MouseFlags, rawIn.flags)

\* C10 as stated: the motion bit 4096 is accepted in a mouse filter, and a
\* native mouse record whose state has bit 4096 set fails to decode.
C10_MoveBitRejectedInState ==
    /\ from_bits(MouseFilter_all, MOVE).ok
    /\ (rawIn.class = "mouse" /\ HasDecoded /\ Bit(rawIn.state, 12)) => ~decoded.ok

ClassOf(op) == IF op.is_mouse THEN "mouse" ELSE "keyboard"
TagOf(T) == IF T = "mouse" THEN "Mouse" ELSE "Keyboard"
Classified(op) == op.is_mouse \/ op.is_keyboard

\* the strokes of the last send whose variant matches the device class
Matching ==
    LET Keep(stroke) == stroke.tag = TagOf(ClassOf(last)) IN
    SelectSeq(last.strokes, Keep)

SendToClass == last.op = "send" /\ Classified(last)

\* C3 as stated: for a mouse or keyboard device, send returns the number of
\* strokes whose variant matches the device class, whatever the driver does.
C3_SendReturnsMatchingCount ==
    SendToClass => last.ret = Len(Matching)

\* C3 amended: for a mouse or keyboard device, send returns the count the
\* native send call reports; that is the number of matching strokes exactly
\* when the driver reports all the records it was handed as sent.
C3_SendReturnsDriverCount ==
    SendToClass =>
        /\ native.fn = "interception_send"
        /\ last.ret = native.ret
        /\ (last.ret = Len(Matching)) <=> (native.ret = native.count)

C3_Witness ==
    /\ SendToClass
    /\ Len(Matching) = 2
    /\ Len(last.strokes) = 3
    /\ last.ret = 1

\* C4: for a mouse or keyboard device, the records handed to the native send
\* call are the encodings of the matching strokes, contiguous from index 0 in
\* input order, the count is their number, and it is within the capacity.
C4_SendHandsMatchingPrefix ==
    SendToClass =>
        /\ native.fn = "interception_send"
        /\ native.ptr = 0
        /\ native.count = Len(Matching)
        /\ native.count <= BUFFER_SIZE
        /\ Len(native.memory) = BUFFER_SIZE
        /\ \A i \in 1 .. Len(Matching) :
              native.memory[i] = T_try_from(ClassOf(last), Matching[i]).val

C4_Witness ==
    /\ SendToClass
    /\ last.strokes = <<K1, M2, M1>>
    /\ last.is_mouse
    /\ native.count = 2

ReceiveFromClass ==
    /\ last.op = "receive"
    /\ Classified(last)
    /\ 0 <= native.ret
    /\ native.ret <= BUFFER_SIZE

\* the well-formed records among the first n the driver returned
Survivors == SelectSeq(SubSeq(native.memory, 1, native.ret), WellFormed)

\* C5: for a mouse or keyboard device, when the driver reports n records
\* within the capacity, receive returns a view of as many strokes as there
\* are well-formed records among the first n, their decodings in the driver's
\* order, kept at the front of the caller's buffer; no scratch record at an
\* index >= n is decoded.
C5_ReceiveCompactsWellFormed ==
    ReceiveFromClass =>
        /\ ~last.panic
        /\ Len(last.ret) = Len(Survivors)
        /\ \A i \in 1 .. Len(Survivors) :
              /\ last.ret[i] = T_try_into(Survivors[i]).val
              /\ last.buffer[i] = last.ret[i]
        /\ \A i \in last.read : i < native.ret

C5_Witness ==
    /\ ReceiveFromClass
    /\ native.ret = 3
    /\ Len(last.ret) = 2
    /\ ~WellFormed(native.memory[2])
    /\ last.ret[1] # last.ret[2]

\* C7: a handle that new obtained is destroyed once, by the drop of its
\* context and not before; no operation uses a destroyed handle; a null
\* handle yields no context and is never destroyed.
C7_HandleDestroyedOnceAtDrop ==
    /\ \A c \in Slots :
          /\ ctx[c] = "unborn" => destroyCalls[c] = 0
          /\ ctx[c] = "none" => handle[c] = NULL /\ destroyCalls[c] = 0
          /\ ctx[c] = "live" => handle[c] # NULL /\ destroyCalls[c] = 0
          /\ ctx[c] = "dropped" => handle[c] # NULL /\ destroyCalls[c] = 1
    /\ native.fn = "interception_destroy_context" =>
          /\ native.ctx # NULL
          /\ \E c \in Slots : handle[c] = native.ctx /\ ctx[c] = "dropped"
    /\ native.fn \notin {"none", "interception_create_context",
                         "interception_destroy_context"} =>
          \E c \in Slots : handle[c] = native.ctx /\ destroyCalls[c] = 0
    /\ (last.op = "new" /\ native.ret = NULL) => ~last.some

C7_Witness ==
    \E c \in Slots :
       /\ ctx[c] = "dropped"
       /\ destroyCalls[c] = 1
       /\ native.fn = "interception_destroy_context"

\* C8: for a device the driver classifies as invalid, get_filter returns the
\* key filter variant with no bit set, whatever is_mouse and the raw filter
\* query would report.
C8_InvalidDeviceGetsEmptyKeyFilter ==
    (last.op = "get_filter" /\ last.is_invalid) =>
        last.ret = [variant |-> "KeyFilter", bits |-> 0]

C8_Witness ==
    /\ last.op = "get_filter"
    /\ last.is_invalid
    /\ last.is_mouse
    /\ last.raw_filter = MOVE

\* a <= b for little-endian limb sequences of the same length
RECURSIVE LimbsLeq(_, _)
LimbsLeq(a, b) ==
    IF a = <<>> THEN TRUE
    ELSE LET n == Len(a) IN
         IF a[n] # b[n] THEN a[n] < b[n]
         ELSE LimbsLeq(SubSeq(a, 1, n - 1), SubSeq(b, 1, n - 1))

U32_MAX_wide == U32_MAX \o <<0, 0, 0, 0, 0, 0>>

\* C9: the timeout handed to the native call is min(whole milliseconds of the
\* duration, 2^32 - 1): unchanged when it fits, the maximum when it does not.
C9_TimeoutClamped ==
    last.op = "wait_with_timeout" =>
        LET m == as_millis(last.duration) IN
        /\ native.fn = "interception_wait_with_timeout"
        /\ Len(m) = 8
        /\ native.milliseconds =
              IF LimbsLeq(m, U32_MAX_wide) THEN SubSeq(m, 1, 2) ELSE U32_MAX

C9_Witness ==
    /\ last.op = "wait_with_timeout"
    /\ last.duration = [secs |-> <<0, 0, 1, 0>>, nanos |-> 0]
    /\ native.milliseconds = U32_MAX

IsGetPrefix == access.op \in {"get_prefix", "get_prefix_mut"}
IsAccess == access.op \in {"index", "index_mut"}

\* what holds of the array, the view and the last call in every state
ViewWithinPrefix ==
    /\ IsGetPrefix =>
          IF access.len <= SIZE
          THEN /\ access.ok
               /\ view.live
               /\ Len(deref(backing, view)) = access.len
               /\ \A i \in 1 .. access.len : deref(backing, view)[i] = backing[i]
          ELSE ~access.ok /\ ~view.live
    /\ view.live => view.len <= SIZE
    /\ (IsAccess /\ access.index >= view.len) => ~access.ok
    /\ (IsAccess /\ access.index < view.len) =>
          access.ok /\ access.val = backing[access.index + 1]

\* what a step may do while a view is borrowed
TailUntouched ==
    view.live =>
        /\ view'.live => view' = view
        /\ \A j \in view.len + 1 .. SIZE : backing'[j] = backing[j]

\* C6: for a length L within the capacity, the view get_prefix or
\* get_prefix_mut returns has the first L elements of the array and no more,
\* an access at an index >= L is rejected, a write through the view leaves
\* the elements from L on as they were, and a length above the capacity
\* yields no view.
C6_ViewIsExactlyThePrefix == []ViewWithinPrefix /\ [][TailUntouched]_vars

C6_Witness ==
    /\ view.live
    /\ view.mutable
    /\ view.len = 2
    /\ access.op = "index_mut"
    /\ access.index = 2
    /\ ~access.ok
    /\ backing[1] = "w"

====
